---- MODULE Spec2Model ----
(***************************************************************************)
(* Batch inference pipeline of chat_do_all.py: pair discovery over a       *)
(* dataset tree (collect_pairs), the backbone transform (preprocess) and   *)
(* the per-pair loop of main that invokes the model and writes the mask    *)
(* and overlay artifacts.                                                  *)
(*                                                                         *)
(* A path is a record [abs, segs]: abs tells whether the string starts     *)
(* with "/", segs is the sequence of its "/"-separated segments, and a     *)
(* segment is the sequence of its "."-separated components, so that        *)
(* "/d/images/c/t1/f.x.jpeg" is                                            *)
(*   [abs |-> TRUE, segs |-> <<<<"d">>, <<"images">>, <<"c">>, <<"t1">>,   *)
(*                             <<"f", "x", "jpeg">>>>].                     *)
(* The string operations of the code (str.replace, str.split, "/".join,    *)
(* str.format) are modelled by what they do on this structure.             *)
(***************************************************************************)
EXTENDS Integers, Sequences, FiniteSets, TLC

VARIABLES
    args,        \* the parsed run configuration (folder_path, prompt_number, image_size, vis_save_path)
    files,       \* the paths that are files on the filesystem
    dirs,        \* the paths that are directories on the filesystem
    img_shape,   \* (height, width) of the decoded images of the dataset
    pc,          \* position of main: "startup", "loop", "check", "masks", "done", "crashed"
    pairs,       \* the list returned by collect_pairs
    k,           \* 1-based position in pairs of the current iteration
    pred_masks,  \* the mask list returned by model.evaluate: shape[0] of each mask
    i,           \* 0-based enumerate index into pred_masks
    log,         \* the observable steps of the run, in order
    error,       \* the uncaught exception that ended the run, or "none"
    deletes      \* number of image files removed by the environment during the run

vars == <<args, files, dirs, img_shape, pc, pairs, k, pred_masks, i, log, error, deletes>>

----------------------------------------------------------------------------
(* Bounds of the model *)

MaxMasks == 2      \* longest mask list the model returns
MaxFrames == 2     \* most files placed on the image side of a dataset tree
MaxLabels == 2     \* most files placed on the label side of a dataset tree
MaxDeletes == 1    \* most image files the environment removes during a run

----------------------------------------------------------------------------
(* Paths *)

Path(abs, segs) == [abs |-> abs, segs |-> segs]

\* os.path.join(p, name) for a relative single-segment name
Join(p, name) == Path(p.abs, Append(p.segs, name))

Last(s) == s[Len(s)]
Front(s) == SubSeq(s, 1, Len(s) - 1)

\* p is q or lies below q
IsUnder(p, q) ==
    /\ p.abs = q.abs
    /\ Len(q.segs) <= Len(p.segs)
    /\ SubSeq(p.segs, 1, Len(q.segs)) = q.segs

\* every directory a file path lies in
Ancestors(p) == { Path(p.abs, SubSeq(p.segs, 1, n)) : n \in 1..(Len(p.segs) - 1) }

\* the orders in which a finite set can be listed
Orders(S) ==
    { s \in [1..Cardinality(S) -> S] : \A a, b \in 1..Cardinality(S) : a # b => s[a] # s[b] }

----------------------------------------------------------------------------
(* Filesystem queries used by collect_pairs and main *)

IsDir(fs, ds, p) == p \in ds                 \* os.path.isdir
Exists(fs, ds, p) == p \in fs \/ p \in ds    \* os.path.exists

\* os.listdir(d): the names of the entries directly inside d
ListDir(fs, ds, d) == { Last(p.segs) : p \in { q \in fs \cup ds : Len(q.segs) > 0 /\ Path(q.abs, Front(q.segs)) = d } }

\* the `dirs` of one os.walk step: the entries of d that are directories
SubDirs(fs, ds, d) == { n \in ListDir(fs, ds, d) : IsDir(fs, ds, Join(d, n)) }

\* the `root` values os.walk(root_dir) yields: root_dir and every directory below it
Walk(fs, ds, root_dir) == IF IsDir(fs, ds, root_dir) THEN { d \in ds : IsUnder(d, root_dir) } ELSE {}

----------------------------------------------------------------------------
(* collect_pairs *)

\* image_clip_path.replace("/images/", "/labels/") on the segments from n on.
\* The substring "/images/" is a segment named images that has a "/" on both
\* sides: it is not the last segment, and it is not the first segment of a
\* relative path. str.replace takes non-overlapping occurrences from the left,
\* so a match uses up the "/" the next segment would need (prev).
RECURSIVE ReplaceFrom(_, _, _, _)
ReplaceFrom(segs, abs, n, prev) ==
    IF n > Len(segs) THEN <<>>
    ELSE LET m == /\ segs[n] = <<"images">>
                  /\ n < Len(segs)
                  /\ (n > 1 \/ abs)
                  /\ ~prev
         IN  <<IF m THEN <<"labels">> ELSE segs[n]>> \o ReplaceFrom(segs, abs, n + 1, m)

ReplaceImages(p) == Path(p.abs, ReplaceFrom(p.segs, p.abs, 1, FALSE))

\* frame_file.replace(".jpeg", ".png"): every "." followed by jpeg opens a
\* component after the first; the names of the model have no component that
\* merely starts with jpeg.
ReplaceJpeg(name) == [j \in 1..Len(name) |-> IF j > 1 /\ name[j] = "jpeg" THEN "png" ELSE name[j]]

\* os.path.basename(root) == "images"
IsImagesDir(d) == Len(d.segs) > 0 /\ Last(d.segs) = <<"images">>

LabelClipPath(image_clip_path) == ReplaceImages(image_clip_path)

\* image_clip_path of lines 63-66: every subdirectory of a walked directory
\* whose basename is images
ImageClipPaths(fs, ds, root_dir) ==
    UNION { { Join(root, clip_id) : clip_id \in SubDirs(fs, ds, root) } :
            root \in { r \in Walk(fs, ds, root_dir) : IsImagesDir(r) } }

\* <<image_ts_path, label_ts_path>> of lines 67-71
TimestampPaths(fs, ds, root_dir) ==
    UNION { { <<Join(image_clip_path, timestamp), Join(LabelClipPath(image_clip_path), timestamp)>> :
              timestamp \in ListDir(fs, ds, image_clip_path) } :
            image_clip_path \in ImageClipPaths(fs, ds, root_dir) }

\* the timestamps that pass the test of line 73
MatchedTimestamps(fs, ds, root_dir) ==
    { m \in TimestampPaths(fs, ds, root_dir) : IsDir(fs, ds, m[2]) }

\* <<image_path, label_path>> of lines 76-78 for one matched timestamp
FramePairs(fs, ds, m) ==
    { <<Join(m[1], frame_file), Join(m[2], ReplaceJpeg(frame_file))>> : frame_file \in ListDir(fs, ds, m[1]) }

\* the pairs collect_pairs appends (line 80), as a set; each image_path is
\* formed once, so the list holds each pair once
CollectPairs(fs, ds, root_dir) ==
    UNION { { pr \in FramePairs(fs, ds, m) : Exists(fs, ds, pr[2]) } :
            m \in MatchedTimestamps(fs, ds, root_dir) }

\* os.listdir(image_ts_path) raises when a timestamp entry of the image side
\* is a file while its label-side counterpart is a directory
CollectRaises(fs, ds, root_dir) ==
    \E m \in MatchedTimestamps(fs, ds, root_dir) : m[1] \in fs

----------------------------------------------------------------------------
(* Prompt registry *)

Prompts == [n \in 1..4 |-> "PROMPT" \o ToString(n)]

\* a lookup that never fails, as Prompts.get(prompt_number, PROMPT1) would be
PromptKnownAlways(prompt_number) == TRUE

\* whether Prompts[prompt_number] finds a key
PromptKnown(prompt_number) == prompt_number \in DOMAIN Prompts

----------------------------------------------------------------------------
(* Backbone transform *)

DefaultImgSize == 1024     \* img_size=1024, the default of preprocess

\* ResizeLongestSide.get_preprocess_shape: the longer edge becomes
\* long_side_length, the other edge is scaled alike and rounded: int(x + 0.5)
GetPreprocessShape(oldh, oldw, long_side_length) ==
    LET m == IF oldh > oldw THEN oldh ELSE oldw
    IN  << (2 * oldh * long_side_length + m) \div (2 * m),
           (2 * oldw * long_side_length + m) \div (2 * m) >>

\* F.pad(x, (0, padw, 0, padh)): pads at the bottom and the right; a negative
\* amount crops instead
FPad(h, w, padw, padh) == <<h + padh, w + padw>>

\* preprocess(x, img_size): the paddings and the shape of the returned tensor
Preprocess(h, w, img_size) ==
    LET padh == img_size - h
        padw == img_size - w
    IN  [padh |-> padh, padw |-> padw, out |-> FPad(h, w, padw, padh)]

\* lines 268-275: transform.apply_image, then preprocess called without img_size
BackboneTransform(shape, image_size) ==
    LET resized == GetPreprocessShape(shape[1], shape[2], image_size)
        padded == Preprocess(resized[1], resized[2], DefaultImgSize)
    IN  [resize |-> resized, padh |-> padded.padh, padw |-> padded.padw, out |-> padded.out]

----------------------------------------------------------------------------
(* Artifact names *)

\* "/".join(lbl_path.split("/")[:-1])
ParentDir(lbl_path) == Path(lbl_path.abs, Front(lbl_path.segs))

\* lbl_path.split("/")[-1].split(".")[0]
BaseName(lbl_path) == Last(lbl_path.segs)[1]

\* names that leave the mask index out
ArtifactNameNoIndex(base_name, idx, prompt_number, kind) ==
    << base_name \o "_LISA_" \o kind \o "_prompt" \o ToString(prompt_number), "png" >>

\* names that are the base name and the extension alone
ArtifactNameBare(base_name, idx, prompt_number, kind) == << base_name, "png" >>

\* "{}_LISA_mask_{}_prompt{}.png" and "{}_LISA_masked_img_{}_prompt{}.png"
ArtifactName(base_name, idx, prompt_number, kind) ==
    << base_name \o "_LISA_" \o kind \o "_" \o ToString(idx) \o "_prompt" \o ToString(prompt_number), "png" >>

\* "{}/{}...".format(parent_dir, ...): an empty parent_dir leaves a leading "/"
SavePath(lbl_path, idx, prompt_number, kind) ==
    LET parent_dir == ParentDir(lbl_path)
    IN  Path(parent_dir.abs \/ Len(parent_dir.segs) = 0,
             Append(parent_dir.segs, ArtifactName(BaseName(lbl_path), idx, prompt_number, kind)))

\* a test that no mask meets
IsEmptyMaskNever(rows) == rows < 0

\* pred_mask.shape[0] == 0
IsEmptyMask(rows) == rows = 0

Kinds == {"mask", "masked_img"}

----------------------------------------------------------------------------
(* The runs considered: dataset trees and run configurations *)

Dir(names) == [j \in 1..Len(names) |-> <<names[j]>>]

\* where the images directory of a tree lies, the labels directory mirroring
\* it, and the --folder_path argument that scans it
Layouts ==
    { [root |-> Path(FALSE, Dir(<<"d">>)),      images |-> Path(FALSE, Dir(<<"d", "images">>)),
       labels |-> Path(FALSE, Dir(<<"d", "labels">>))],
      [root |-> Path(FALSE, Dir(<<"images">>)), images |-> Path(FALSE, Dir(<<"images">>)),
       labels |-> Path(FALSE, Dir(<<"labels">>))],
      [root |-> Path(TRUE, Dir(<<"d">>)),       images |-> Path(TRUE, Dir(<<"d", "images", "x", "images">>)),
       labels |-> Path(TRUE, Dir(<<"d", "images", "x", "labels">>))] }

CanonicalLayout ==
    [root |-> Path(TRUE, Dir(<<"d">>)), images |-> Path(TRUE, Dir(<<"d", "images">>)),
     labels |-> Path(TRUE, Dir(<<"d", "labels">>))]

ImageNames == { <<"f", "jpeg">>, <<"f", "x", "jpeg">>, <<"f", "png">>, <<"f_LISA_mask_0_prompt1", "jpeg">> }
LabelNames == { <<"f", "png">>, <<"f", "x", "png">>, <<"f_LISA_mask_0_prompt1", "png">> }

Frame(side_dir, timestamp, name) == Join(Join(Join(side_dir, <<"c">>), <<timestamp>>), name)

\* the files a tree may hold: timestamp t2 has no label side (a partial dataset)
ImageFrames(l) == { Frame(l.images, "t1", n) : n \in ImageNames } \cup { Frame(l.images, "t2", <<"f", "jpeg">>) }
LabelFrames(l) == { Frame(l.labels, "t1", n) : n \in LabelNames }

Trees(l) ==
    { im \cup lb : im \in { x \in SUBSET ImageFrames(l) : Cardinality(x) <= MaxFrames },
                   lb \in { x \in SUBSET LabelFrames(l) : Cardinality(x) <= MaxLabels } }

\* one frame in each of two timestamps, both labelled
CanonicalTree ==
    { Frame(CanonicalLayout.images, "t1", <<"f", "jpeg">>), Frame(CanonicalLayout.labels, "t1", <<"f", "png">>),
      Frame(CanonicalLayout.images, "t2", <<"f", "jpeg">>), Frame(CanonicalLayout.labels, "t2", <<"f", "png">>) }

PromptNumbers == 0..5
ImageSizes == {512, 1024, 2048}
ImageShapes == { <<1280, 1920>>, <<640, 480>> }
DefaultShape == <<1280, 1920>>
VisPath == Path(TRUE, Dir(<<"vis">>))

\* the mask lists model.evaluate may return: shape[0] of each mask
MaskLists == UNION { [1..n -> {0, 1}] : n \in 0..MaxMasks }

DirsOf(fs, root) == UNION { Ancestors(f) : f \in fs } \cup {root} \cup Ancestors(root)

StartState ==
    /\ pc = "startup"
    /\ pairs = <<>>
    /\ k = 1
    /\ pred_masks = <<>>
    /\ i = 0
    /\ log = <<>>
    /\ error = "none"
    /\ deletes = 0

\* any dataset tree, scanned under the default configuration
InitDatasets ==
    /\ \E l \in Layouts : \E fs \in Trees(l) :
          /\ files = fs
          /\ dirs = DirsOf(fs, l.root)
          /\ args = [folder_path |-> l.root, prompt_number |-> 1, image_size |-> DefaultImgSize,
                     vis_save_path |-> VisPath]
    /\ img_shape = DefaultShape
    /\ StartState

\* any configuration, run over the two-frame tree
InitConfigs ==
    /\ files = CanonicalTree
    /\ dirs = DirsOf(CanonicalTree, CanonicalLayout.root)
    /\ \E n \in PromptNumbers, sz \in ImageSizes :
          args = [folder_path |-> CanonicalLayout.root, prompt_number |-> n, image_size |-> sz,
                  vis_save_path |-> VisPath]
    /\ img_shape \in ImageShapes
    /\ StartState

Init == InitDatasets \/ InitConfigs

----------------------------------------------------------------------------
(* main *)

Event(op, pair) == [op |-> op, pair |-> pair]

\* lines 135-222: os.makedirs(vis_save_path), model set-up, collect_pairs
Startup ==
    /\ pc = "startup"
    /\ dirs' = dirs \cup {args.vis_save_path} \cup Ancestors(args.vis_save_path)
    /\ IF CollectRaises(files, dirs', args.folder_path)
         THEN /\ pairs' = pairs
              /\ pc' = "crashed"
              /\ error' = "NotADirectoryError"
         ELSE /\ pairs' \in Orders(CollectPairs(files, dirs', args.folder_path))
              /\ pc' = "prompt"
              /\ error' = error
    /\ UNCHANGED <<args, files, img_shape, k, pred_masks, i, log, deletes>>

\* line 223: print(Prompts[args.prompt_number]) with a known key
PrintPrompt ==
    /\ pc = "prompt"
    /\ PromptKnown(args.prompt_number)
    /\ pc' = "loop"
    /\ UNCHANGED <<args, files, dirs, img_shape, pairs, k, pred_masks, i, log, error, deletes>>

\* line 223 with an unknown key: the dict lookup raises KeyError
PrintPromptKeyError ==
    /\ pc = "prompt"
    /\ ~PromptKnown(args.prompt_number)
    /\ pc' = "crashed"
    /\ error' = "KeyError"
    /\ UNCHANGED <<args, files, dirs, img_shape, pairs, k, pred_masks, i, log, deletes>>

\* an iteration that does not release the cache before it looks for the image
IterationStartNoRelease ==
    /\ pc = "loop"
    /\ k <= Len(pairs)
    /\ pc' = "check"
    /\ UNCHANGED <<args, files, dirs, img_shape, pairs, k, pred_masks, i, log, error, deletes>>

\* lines 224-242: the next pair of the list; empty_cache, the conversation
IterationStart ==
    /\ pc = "loop"
    /\ k <= Len(pairs)
    /\ log' = Append(log, Event("empty_cache", k))
    /\ pc' = "check"
    /\ UNCHANGED <<args, files, dirs, img_shape, pairs, k, pred_masks, i, error, deletes>>

\* line 224 with the list exhausted: main returns
LoopExit ==
    /\ pc = "loop"
    /\ k > Len(pairs)
    /\ pc' = "done"
    /\ UNCHANGED <<args, files, dirs, img_shape, pairs, k, pred_masks, i, log, error, deletes>>

\* a missing image that ends the loop (break) instead of going on (continue)
SkipMissingBreaks ==
    /\ pc = "check"
    /\ ~Exists(files, dirs, pairs[k][1])
    /\ log' = Append(log, Event("not_found", k))
    /\ pc' = "done"
    /\ UNCHANGED <<args, files, dirs, img_shape, pairs, k, pred_masks, i, error, deletes>>

\* lines 246-248: the image path does not exist: print and continue
SkipMissing ==
    /\ pc = "check"
    /\ ~Exists(files, dirs, pairs[k][1])
    /\ log' = Append(log, Event("not_found", k))
    /\ k' = k + 1
    /\ pc' = "loop"
    /\ UNCHANGED <<args, files, dirs, img_shape, pairs, pred_masks, i, error, deletes>>

\* lines 250-304: decode, both transforms, model.evaluate returning a mask list
Evaluate ==
    /\ pc = "check"
    /\ pairs[k][1] \in files
    /\ \E masks \in MaskLists : pred_masks' = masks
    /\ log' = Append(log, [op |-> "invoke", pair |-> k,
                           backbone |-> BackboneTransform(img_shape, args.image_size)])
    /\ i' = 0
    /\ pc' = "masks"
    /\ UNCHANGED <<args, files, dirs, img_shape, pairs, k, error, deletes>>

\* lines 250-294 raising: cv2.cvtColor on an undecodable path (a directory),
\* or model.evaluate failing; nothing catches it
EvaluateRaises ==
    /\ pc = "check"
    /\ Exists(files, dirs, pairs[k][1])
    /\ error' = IF pairs[k][1] \in files THEN "RuntimeError" ELSE "cv2.error"
    /\ pc' = "crashed"
    /\ UNCHANGED <<args, files, dirs, img_shape, pairs, k, pred_masks, i, log, deletes>>

\* lines 305-307: a mask with zero rows is passed over
MaskSkip ==
    /\ pc = "masks"
    /\ i < Len(pred_masks)
    /\ IsEmptyMask(pred_masks[i + 1])
    /\ i' = i + 1
    /\ UNCHANGED <<args, files, dirs, img_shape, pc, pairs, k, pred_masks, log, error, deletes>>

WriteEvent(pair, idx, kind, path) == [op |-> "write", pair |-> pair, index |-> idx, kind |-> kind, path |-> path]

\* lines 309-345: the two cv2.imwrite calls of a non-empty mask
MaskWrite ==
    /\ pc = "masks"
    /\ i < Len(pred_masks)
    /\ ~IsEmptyMask(pred_masks[i + 1])
    /\ LET mask_path == SavePath(pairs[k][2], i, args.prompt_number, "mask")
           img_path == SavePath(pairs[k][2], i, args.prompt_number, "masked_img")
       IN  /\ log' = log \o << WriteEvent(k, i, "mask", mask_path), WriteEvent(k, i, "masked_img", img_path) >>
           /\ files' = files \cup ({mask_path, img_path} \ dirs)
    /\ i' = i + 1
    /\ UNCHANGED <<args, dirs, img_shape, pc, pairs, k, pred_masks, error, deletes>>

\* line 305 with the mask list exhausted: on to the next pair
MasksDone ==
    /\ pc = "masks"
    /\ i = Len(pred_masks)
    /\ k' = k + 1
    /\ pc' = "loop"
    /\ UNCHANGED <<args, files, dirs, img_shape, pairs, pred_masks, i, log, error, deletes>>

\* the environment removes the image of the current pair before line 246
\* looks for it (main reads no image path before its own iteration, so an
\* earlier removal shows in the same way)
ImageDeleted ==
    /\ pc = "check"
    /\ deletes < MaxDeletes
    /\ pairs[k][1] \in files
    /\ files' = files \ {pairs[k][1]}
    /\ deletes' = deletes + 1
    /\ UNCHANGED <<args, dirs, img_shape, pc, pairs, k, pred_masks, i, log, error>>

Next ==
    \/ Startup
    \/ PrintPrompt
    \/ PrintPromptKeyError
    \/ IterationStart
    \/ LoopExit
    \/ SkipMissing
    \/ Evaluate
    \/ EvaluateRaises
    \/ MaskSkip
    \/ MaskWrite
    \/ MasksDone
    \/ ImageDeleted

Spec == Init /\ [][Next]_vars

----------------------------------------------------------------------------
(* Reading the log *)

EventsOf(op) == { n \in 1..Len(log) : log[n].op = op }

WritesOf(pair) == { n \in EventsOf("write") : log[n].pair = pair }

----------------------------------------------------------------------------
(* C1: an empty mask at position j of a result list leaves no file with     *)
(* index j for that sample, and a non-empty mask at position j is written   *)
(* under index j, its position in the full list: skipping never renumbers.  *)

C1_EmptySkippedIndexKept ==
    pc = "masks" =>
        /\ \A w \in WritesOf(k) : log[w].index \in 0..(i - 1)
        /\ \A j \in 0..(i - 1) :
              LET W == { w \in WritesOf(k) : log[w].index = j }
              IN  IF pred_masks[j + 1] = 0
                    THEN /\ W = {}
                         /\ \A w \in WritesOf(k), kind \in Kinds :
                               Last(log[w].path.segs) # ArtifactName(BaseName(pairs[k][2]), j, args.prompt_number, kind)
                    ELSE /\ W # {}
                         /\ \A w \in W :
                               Last(log[w].path.segs) = ArtifactName(BaseName(pairs[k][2]), j, args.prompt_number, log[w].kind)

C1_Witness ==
    /\ pc = "masks"
    /\ i >= 2
    /\ pred_masks[1] = 0
    /\ pred_masks[2] # 0
    /\ \E w \in WritesOf(k) : log[w].index = 1

----------------------------------------------------------------------------
(* C3: a pair whose image path is gone when its iteration runs is logged,   *)
(* gets no model invocation and no artifact, raises nothing, and the run    *)
(* goes on through every later pair.                                        *)

C3_MissingImageSkipped ==
    /\ \A n \in EventsOf("not_found") :
          /\ n > 1
          /\ log[n - 1] = Event("empty_cache", log[n].pair)
          /\ \A m \in EventsOf("invoke") \cup EventsOf("write") : log[m].pair # log[n].pair
    /\ (Len(log) > 0 /\ log[Len(log)].op = "not_found") =>
          /\ ~Exists(files, dirs, pairs[log[Len(log)].pair][1])
          /\ error = "none"
          /\ pc \in {"loop", "done"}
          /\ k = log[Len(log)].pair + 1
    /\ pc = "masks" => Exists(files, dirs, pairs[k][1])
    /\ pc = "done" =>
          \A p \in 1..Len(pairs) :
              Cardinality({ n \in EventsOf("not_found") \cup EventsOf("invoke") : log[n].pair = p }) = 1

C3_Witness ==
    /\ pc = "done"
    /\ error = "none"
    /\ \E n \in EventsOf("not_found") : \E m \in EventsOf("write") : log[m].pair > log[n].pair

----------------------------------------------------------------------------
(* C4 as stated: with a prompt id that is no key of the registry the run    *)
(* fails with a ConfigurationError before any pair is processed.            *)

C4_ConfigurationError ==
    (args.prompt_number \notin 1..4 /\ pc \notin {"startup", "prompt"}) =>
        /\ pc = "crashed"
        /\ error = "ConfigurationError"
        /\ log = <<>>

(* C4 as amended: with a prompt id that is no key of the registry the run   *)
(* fails with the KeyError of the dictionary lookup of line 223 (unless     *)
(* pair discovery has raised before it), before any pair is processed, any  *)
(* model invocation is made or any artifact is written.                     *)

C4_KeyErrorBeforeAnyPair ==
    (args.prompt_number \notin 1..4 /\ pc \notin {"startup", "prompt"}) =>
        /\ pc = "crashed"
        /\ error \in {"KeyError", "NotADirectoryError"}
        /\ error = "KeyError" <=> ~CollectRaises(files, dirs, args.folder_path)
        /\ log = <<>>

C4_Witness ==
    /\ args.prompt_number \notin 1..4
    /\ pc = "crashed"
    /\ error = "KeyError"
    /\ Len(pairs) > 0
    /\ log = <<>>

----------------------------------------------------------------------------
(* C2: every non-empty mask at index j of a processed pair gets exactly two *)
(* files, both in the label's parent directory and not under the            *)
(* visualization path, named {label_base_name}_LISA_mask_{j}_prompt{id}.png *)
(* and {label_base_name}_LISA_masked_img_{j}_prompt{id}.png, where          *)
(* label_base_name is the label filename without its extension, also when   *)
(* the filename holds more than one ".".                                    *)

\* a filename without its extension: everything before its last "."
WithoutExtension(name) == IF Len(name) > 1 THEN Front(name) ELSE name

\* the name the claim gives the artifact of a label filename
ClaimedArtifactName(name, idx, prompt_number, kind) ==
    LET stem == WithoutExtension(name)
    IN  Front(stem) \o << Last(stem) \o "_LISA_" \o kind \o "_" \o ToString(idx) \o "_prompt" \o ToString(prompt_number), "png" >>

C2_TwoFilesBesideLabel ==
    pc = "masks" =>
        \A j \in 0..(i - 1) :
            pred_masks[j + 1] # 0 =>
                LET W == { w \in WritesOf(k) : log[w].index = j }
                    lbl == pairs[k][2]
                IN  /\ Cardinality(W) = 2
                    /\ { log[w].path : w \in W } =
                          { Path(lbl.abs, Append(Front(lbl.segs),
                                 ClaimedArtifactName(Last(lbl.segs), j, args.prompt_number, kind))) :
                            kind \in Kinds }
                    /\ \A w \in W : ~IsUnder(log[w].path, args.vis_save_path)

----------------------------------------------------------------------------
(* C5: for every configured image_size and every image the backbone tensor  *)
(* is image_size x image_size, the paddings pad_h and pad_w are not         *)
(* negative, and nothing of the resized image is cropped.                   *)

C5_BackboneIsTargetSquare ==
    \A n \in EventsOf("invoke") :
        LET b == log[n].backbone
        IN  /\ b.out = <<args.image_size, args.image_size>>
            /\ b.padh >= 0
            /\ b.padw >= 0
            /\ b.out[1] >= b.resize[1]
            /\ b.out[2] >= b.resize[2]

----------------------------------------------------------------------------
(* C6: every discovered label_path differs from its image_path and is the   *)
(* image_path with the images segment that triggered discovery replaced by  *)
(* labels and the extension .jpeg replaced by .png, nothing else changed.   *)

\* .../images/<clip>/<timestamp>/<frame>: the images segment is the fourth from the end
MirroredLabel(image_path) ==
    LET n == Len(image_path.segs)
        frame == image_path.segs[n]
    IN  Path(image_path.abs,
             [j \in 1..n |->
                 IF j = n - 3 THEN <<"labels">>
                 ELSE IF j = n /\ Last(frame) = "jpeg" /\ Len(frame) > 1 THEN Front(frame) \o <<"png">>
                 ELSE image_path.segs[j]])

C6_LabelMirrorsImage ==
    \A p \in 1..Len(pairs) :
        /\ pairs[p][2] # pairs[p][1]
        /\ pairs[p][2] = MirroredLabel(pairs[p][1])

----------------------------------------------------------------------------
(* C7: discovery is complete: every image file                              *)
(* .../images/<clip>/<timestamp>/<frame>.jpeg under the root whose mirrored *)
(* label file exists is in the returned list exactly once, in whatever      *)
(* order; a timestamp without a label-side directory gives no pair and no   *)
(* error; a root without an images directory gives the empty list.          *)

IsImageFrame(f) ==
    /\ Len(f.segs) >= 4
    /\ f.segs[Len(f.segs) - 3] = <<"images">>
    /\ Len(Last(f.segs)) > 1
    /\ Last(Last(f.segs)) = "jpeg"

C7_DiscoveryComplete ==
    pc = "prompt" =>
        /\ error = "none"
        /\ \A f \in files :
              (IsUnder(f, args.folder_path) /\ IsImageFrame(f) /\ MirroredLabel(f) \in files) =>
                  Cardinality({ p \in 1..Len(pairs) : pairs[p][1] = f }) = 1
        /\ \A p \in 1..Len(pairs) :
              IsDir(files, dirs, Path(pairs[p][2].abs, Front(pairs[p][2].segs)))
        /\ (~\E d \in dirs : IsUnder(d, args.folder_path) /\ IsImagesDir(d)) => pairs = <<>>

----------------------------------------------------------------------------
(* C8 as stated: no output path is written more than once in a run: two     *)
(* writes that differ in label file, mask index or artifact kind go to      *)
(* distinct paths, and so do writes under two different prompt ids.         *)

\* every path a run over the same pairs could write under another prompt id
OtherPromptPaths ==
    { SavePath(pairs[p][2], j, n, kind) :
        p \in 1..Len(pairs), j \in 0..(MaxMasks - 1), n \in PromptNumbers \ {args.prompt_number}, kind \in Kinds }

C8_NoPathWrittenTwice ==
    /\ \A a, b \in EventsOf("write") : a # b => log[a].path # log[b].path
    /\ { log[a].path : a \in EventsOf("write") } \cap OtherPromptPaths = {}

(* C8 as amended: two writes of a run go to the same path only when they    *)
(* agree in the label's parent directory, in the label base name (the label *)
(* filename up to its first "."), in the mask index and in the artifact     *)
(* kind; and no path the run has written by its end is a path that a run    *)
(* over the same pairs writes under another prompt id.                      *)

C8_SamePathOnlyOnSameKey ==
    /\ \A a, b \in EventsOf("write") :
          log[a].path = log[b].path =>
              /\ Front(pairs[log[a].pair][2].segs) = Front(pairs[log[b].pair][2].segs)
              /\ pairs[log[a].pair][2].abs = pairs[log[b].pair][2].abs
              /\ Last(pairs[log[a].pair][2].segs)[1] = Last(pairs[log[b].pair][2].segs)[1]
              /\ log[a].index = log[b].index
              /\ log[a].kind = log[b].kind
    /\ pc \in {"done", "crashed"} =>
          { log[a].path : a \in EventsOf("write") } \cap OtherPromptPaths = {}

C8_Witness ==
    \E a, b \in EventsOf("write") :
        /\ log[a].pair # log[b].pair
        /\ pairs[log[a].pair][2] # pairs[log[b].pair][2]
        /\ log[a].index = log[b].index
        /\ log[a].kind = log[b].kind
        /\ log[a].path # log[b].path
        /\ \E c \in WritesOf(log[a].pair) : log[c].index # log[a].index

----------------------------------------------------------------------------
(* C9: the run goes through the pair list one pair at a time in list order: *)
(* each pair is visited once, the cache release opens every iteration (also *)
(* one that is then skipped for a missing image) and precedes that pair's   *)
(* model invocation, every write of pair p precedes the cache release of    *)
(* pair p + 1, and without a raised failure the run ends after the last     *)
(* pair.                                                                    *)

\* the pair of the latest cache release at or before the event at n (0 if none)
IterationOf(releases, n) ==
    LET before == { m \in releases : m <= n }
    IN  IF before = {} THEN 0 ELSE log[CHOOSE m \in before : \A o \in before : o <= m].pair

C9_SequentialInListOrder ==
    LET releases == EventsOf("empty_cache")
        invokes == EventsOf("invoke")
        visits == invokes \cup EventsOf("not_found")
    IN  /\ \A n \in 1..Len(log) :
              /\ IterationOf(releases, n) = log[n].pair
              /\ log[n].op = "empty_cache" => log[n].pair = Cardinality({ m \in releases : m < n }) + 1
              /\ log[n].op = "write" => \E m \in invokes : m < n /\ log[m].pair = log[n].pair
              /\ log[n].op \in {"invoke", "not_found"} => log[n - 1] = Event("empty_cache", log[n].pair)
        /\ \A a, b \in visits : log[a].pair = log[b].pair => a = b
        /\ Cardinality(releases) =
              (IF pc \in {"check", "masks", "crashed"} /\ error \notin {"KeyError", "NotADirectoryError"} THEN k ELSE k - 1)
        /\ pc = "done" =>
              /\ error = "none"
              /\ k = Len(pairs) + 1
              /\ { log[n].pair : n \in releases } = 1..Len(pairs)
        /\ (error = "none" /\ pc # "done") => ENABLED Next

C9_Witness ==
    /\ pc = "done"
    /\ Len(pairs) >= 2
    /\ \E n \in EventsOf("write") : log[n].pair = 1
    /\ \E n \in EventsOf("not_found") : log[n].pair = 2

----------------------------------------------------------------------------
(* C10 as stated: no artifact path written for a pair is the label path or  *)
(* the image path of any discovered pair.                                   *)

C10_NoInputOverwritten ==
    \A w \in EventsOf("write") : \A p \in 1..Len(pairs) :
        /\ log[w].path # pairs[p][1]
        /\ log[w].path # pairs[p][2]

(* C10 as amended: no artifact path written for a pair is the label path    *)
(* or the image path of a discovered pair, unless the file name of that     *)
(* path has itself the form of an artifact name,                            *)
(* <base>_LISA_mask_<i>_prompt<id>.png or                                   *)
(* <base>_LISA_masked_img_<i>_prompt<id>.png.                               *)

\* the first components of the file names of the dataset trees
BaseNames == { n[1] : n \in ImageNames \cup LabelNames }

HasArtifactForm(name) ==
    \E b \in BaseNames, j \in 0..MaxMasks, n \in PromptNumbers :
        \/ name = << b \o "_LISA_mask_" \o ToString(j) \o "_prompt" \o ToString(n), "png" >>
        \/ name = << b \o "_LISA_masked_img_" \o ToString(j) \o "_prompt" \o ToString(n), "png" >>

C10_OnlyArtifactNamedInputsOverwritten ==
    \A w \in EventsOf("write") : \A p \in 1..Len(pairs) : \A side \in 1..2 :
        log[w].path = pairs[p][side] => HasArtifactForm(Last(pairs[p][side].segs))

C10_Witness ==
    /\ Len(pairs) >= 2
    /\ \E w \in EventsOf("write") :
          /\ log[w].pair = 2
          /\ Front(log[w].path.segs) = Front(pairs[1][2].segs)
          /\ \A p \in 1..Len(pairs) : log[w].path # pairs[p][1] /\ log[w].path # pairs[p][2]

====
